---------------------------- MODULE Spec2Model ----------------------------
(***************************************************************************)
(* Model of database/db.py: the point-code store and the ranking of the    *)
(* SITCON camp bot.                                                        *)
(*                                                                         *)
(* All handlers work on the one module-level connection `con`.  The rows   *)
(* that statements on `con` see are `point_code`; the rows that have been  *)
(* committed are `committed`.  con.commit() makes the two equal by keeping *)
(* `point_code`, con.rollback() by going back to `committed`.              *)
(*                                                                         *)
(* A step of a caller is one round trip of a handler to the database: the  *)
(* statement and the commit or rollback that follows it.  use_point_code   *)
(* and delete_point_code make two round trips (the SELECT, then the        *)
(* UPDATE), gen_point_code makes one per turn of its retry loop.           *)
(*                                                                         *)
(* Spec:    the calls of groups (positive ids) overlap: the steps of the   *)
(*          callers interleave freely; the store does not fail.            *)
(* SeqSpec: calls do not overlap: a caller steps only while every other    *)
(*          caller is idle; use_point_code is called with any group        *)
(*          number, executemany may fail, and the ranking is read.         *)
(***************************************************************************)
EXTENDS Integers, Sequences, FiniteSets, Bags

VARIABLES
    point_code,   \* rows of table point_code as seen through `con`
    committed,    \* rows of table point_code that are committed
    pc,           \* per caller: where it is in the handler it runs
    local,        \* per caller: the handler's arguments and local variables
    ret,          \* the value most recently returned by a handler
    issued,       \* history: the calls of gen_point_code that returned codes, in order
    redeemed,     \* history: <<code, group, point>> of the use_point_code calls that returned a point
    deleted,      \* history: the codes for which delete_point_code returned success
    submissions,  \* rows of table submissions, a bag: the table has no key
    message       \* rows of table message, in the order of insertion

vars == <<point_code, committed, pc, local, ret, issued, redeemed, deleted,
          submissions, message>>

---------------------------------------------------------------------------
(* Inputs *)

Callers == {"c1", "c2"}

\* codes the generator can produce
Codes == {"A", "B"}

\* point values passed to gen_point_code (its default is 0)
Points == {0, 2}

\* group ids passed to use_point_code: inside 1..9, above 9, and not positive
Groups == {0, 1, 2, 10}

\* the ids of groups: positive integers
GroupIds == {g \in Groups : g > 0}

\* largest `amount` passed to gen_point_code
MaxAmount == 2

\* schema of point_code: used_by INTEGER DEFAULT 0
DefaultUsedBy == 0

\* schema of point_code: code TEXT PRIMARY KEY
PrimaryKeyViolation(rows, code) == \E r \in rows : r.code = code

\* the groups get_group_point pads: range(1, 10)
FirstGroup == 1
LastGroup == 9

\* group ids passed to log_submission and get_submissions_statistics: one
\* inside 1..9 and one outside
SubmitGroups == {1, 10}

\* task ids passed to them: two tasks of the catalog and an id that is none
TaskIds == {"t1", "t2", "zz"}

\* passwords passed to log_submission
Passwords == {"pw"}

\* largest number of rows of table submissions
MaxSubmissions == 3

\* the max_attempt of the task that has one
MaxAttempt == 2

\* ids passed to store_group_selection_message_id
MessageIds == {11, 12, 13}

\* largest number of rows of table message
MaxMessages == 3

---------------------------------------------------------------------------
(* Values *)

\* Python's None and a present value, as sequences of length 0 and 1
None == <<>>
Some(v) == <<v>>

NoLocal == [code |-> "", group |-> 0, point |-> 0, amount |-> 0]

Result(op, val, err) == [op |-> op, val |-> val, err |-> err]

NoError == "none"

---------------------------------------------------------------------------
(* Task catalog (module task) *)

\* the tasks: a dict with key 'task_id' and, for some, key 'max_attempt'
Tasks == {[task_id |-> "t1", max_attempt |-> Some(MaxAttempt)],
          [task_id |-> "t2", max_attempt |-> None]}

\* get_all_tasks()
GetAllTasks == Tasks

\* get_task_by_id(task_id): the task, or None
GetTaskById(task_id) ==
    LET found == {task \in Tasks : task.task_id = task_id}
    IN  IF found = {} THEN None ELSE Some(CHOOSE task \in found : TRUE)

---------------------------------------------------------------------------
(* SQL statements *)

\* INSERT INTO point_code(code, point) VALUES (?, ?)
NewRow(code, point) == [code |-> code, point |-> point, used_by |-> DefaultUsedBy]

\* con.executemany(sql, codes): the rows are inserted one after the other; the
\* first duplicate code raises IntegrityError, and a fault of the store at row
\* number failAt (0: none) raises another sqlite3.Error.  The rows inserted
\* before the exception stay in the open transaction.
RECURSIVE ExecuteManyFrom(_, _, _, _, _)
ExecuteManyFrom(rows, codes, point, i, failAt) ==
    IF i > Len(codes) THEN [rows |-> rows, status |-> "ok"]
    ELSE IF i = failAt THEN [rows |-> rows, status |-> "error"]
    ELSE IF PrimaryKeyViolation(rows, codes[i])
         THEN [rows |-> rows, status |-> "integrity"]
    ELSE ExecuteManyFrom(rows \cup {NewRow(codes[i], point)}, codes, point,
                         i + 1, failAt)

ExecuteMany(rows, codes, point, failAt) ==
    ExecuteManyFrom(rows, codes, point, 1, failAt)

\* the query without `WHERE code = ?`
SelectAnyRow(rows, code) ==
    IF rows = {} THEN None ELSE Some(CHOOSE r \in rows : TRUE)

\* SELECT used_by, point FROM point_code WHERE code = ?  -- cur.fetchone()
SelectByCode(rows, code) ==
    LET found == {r \in rows : r.code = code}
    IN  IF found = {} THEN None ELSE Some(CHOOSE r \in found : TRUE)

\* the query without `AND used_by = 0`
SelectUnusedAnyState(rows, code) ==
    IF {r \in rows : r.code = code} = {} THEN None ELSE Some(1)

\* SELECT 1 FROM point_code WHERE code = ? AND used_by = 0  -- cur.fetchone()
SelectUnused(rows, code) ==
    LET found == {r \in rows : r.code = code /\ r.used_by = 0}
    IN  IF found = {} THEN None ELSE Some(1)

\* UPDATE point_code SET used_by = ? WHERE code = ?
UpdateUsedBy(rows, code, value) ==
    {IF r.code = code THEN [r EXCEPT !.used_by = value] ELSE r : r \in rows}

\* the value delete_point_code writes into used_by
DeletedMark == -1

\* the test without `used_by > 0`
IsUsedDeletedOnly(used_by) == used_by = -1

\* use_point_code's test of the row it read: `used_by > 0 or used_by == -1`
IsUsed(used_by) == used_by > 0 \/ used_by = -1

---------------------------------------------------------------------------
(* get_group_point *)

\* the query with `WHERE used_by != 0`
RankedGroupsNonZero(rows) == {r.used_by : r \in {x \in rows : x.used_by # 0}}

\* WHERE used_by > 0 GROUP BY used_by: the groups of the result
RankedGroups(rows) == {r.used_by : r \in {x \in rows : x.used_by > 0}}

RECURSIVE SumPoints(_)
SumPoints(rows) ==
    IF rows = {} THEN 0
    ELSE LET r == CHOOSE x \in rows : TRUE
         IN  r.point + SumPoints(rows \ {r})

\* SUM(point) of one group
GroupTotal(rows, g) == SumPoints({r \in rows : r.used_by = g})

\* ORDER BY point DESC, group ASC
Before(a, b) == a[2] > b[2] \/ (a[2] = b[2] /\ a[1] < b[1])

RECURSIVE OrderBy(_)
OrderBy(entries) ==
    IF entries = {} THEN <<>>
    ELSE LET first == CHOOSE e \in entries :
                          \A o \in entries \ {e} : Before(e, o)
         IN  <<first>> \o OrderBy(entries \ {first})

\* the rows of the query
RankQuery(rows) == OrderBy({<<g, GroupTotal(rows, g)>> : g \in RankedGroups(rows)})

\* the padding without `if i not in groups`
RECURSIVE PadAll(_, _, _)
PadAll(res, groups, i) ==
    IF i > LastGroup THEN res
    ELSE PadAll(Append(res, <<i, 0>>), groups, i + 1)

\* for i in range(1, 10): if i not in groups: res.append((i, 0))
RECURSIVE Pad(_, _, _)
Pad(res, groups, i) ==
    IF i > LastGroup THEN res
    ELSE Pad(IF i \notin groups THEN Append(res, <<i, 0>>) ELSE res, groups, i + 1)

GroupPoint(rows) ==
    LET q == RankQuery(rows)
    IN  Pad(q, {q[k][1] : k \in 1..Len(q)}, FirstGroup)

---------------------------------------------------------------------------
(* submissions *)

\* a Python bool bound to a parameter of a statement is stored as 1 or 0
AsInteger(b) == IF b THEN 1 ELSE 0

\* INSERT OR REPLACE on a table with key (group_id, task_id)
InsertSubmissionReplacing(rows, group_id, task_id, password, is_correct) ==
    LET kept == {r \in BagToSet(rows) : r.group_id # group_id \/ r.task_id # task_id}
    IN  [r \in kept |-> rows[r]]
        (+) SetToBag({[group_id |-> group_id, task_id |-> task_id,
                       password |-> password, is_correct |-> AsInteger(is_correct)]})

\* INSERT INTO submissions(group_id, task_id, password, is_correct)
\* VALUES (?, ?, ?, ?)
InsertSubmission(rows, group_id, task_id, password, is_correct) ==
    rows (+) SetToBag({[group_id |-> group_id, task_id |-> task_id,
                        password |-> password, is_correct |-> AsInteger(is_correct)]})

\* the number of rows of the bag that are one of `kinds`
RECURSIVE SumCopies(_, _)
SumCopies(rows, kinds) ==
    IF kinds = {} THEN 0
    ELSE LET r == CHOOSE x \in kinds : TRUE
         IN  CopiesIn(r, rows) + SumCopies(rows, kinds \ {r})

\* the aggregate without `AND task_id = ?`
SumIsCorrectAnyTask(rows, group_id, task_id, value) ==
    SumCopies(rows, {r \in BagToSet(rows) :
                        r.group_id = group_id /\ r.is_correct = value})

\* COALESCE(SUM(is_correct = value), 0) over the rows of a group and a task
SumIsCorrect(rows, group_id, task_id, value) ==
    SumCopies(rows, {r \in BagToSet(rows) :
                        /\ r.group_id = group_id /\ r.task_id = task_id
                        /\ r.is_correct = value})

\* get_submissions_statistics: SELECT success_count, fail_count
\* WHERE group_id = ? AND task_id = ?  -- cur.fetchone()
StatisticsQuery(rows, group_id, task_id) ==
    <<SumIsCorrect(rows, group_id, task_id, 1),
      SumIsCorrect(rows, group_id, task_id, 0)>>

\* get_scoreboard: SELECT group_id, task_id, success_count, fail_count
\* GROUP BY group_id, task_id  -- cur.fetchall()
ScoreboardQuery(rows) ==
    {<<r.group_id, r.task_id,
       SumIsCorrect(rows, r.group_id, r.task_id, 1),
       SumIsCorrect(rows, r.group_id, r.task_id, 0)>> : r \in BagToSet(rows)}

\* the status with the test of success_count first
RowStatusSolvedFirst(task, success_count, fail_count) ==
    IF success_count > 0 THEN 1
    ELSE IF task.max_attempt # None /\ fail_count >= task.max_attempt[1] THEN -1
    ELSE 0

\* get_scoreboard: the status of one row of the query
RowStatus(task, success_count, fail_count) ==
    IF task.max_attempt # None /\ fail_count >= task.max_attempt[1] THEN -1
    ELSE IF success_count > 0 THEN 1
    ELSE 0

\* table = {i: {task['task_id']: 0 for task in tasks} for i in range(1, 10)}
NewTable(tasks) ==
    [i \in FirstGroup..LastGroup |-> [t \in {task.task_id : task \in tasks} |-> 0]]

\* get_scoreboard's loop over the rows of the query.  `'max_attempt' in task`
\* raises TypeError when get_task_by_id returned None, and
\* `table[group_id][task_id] = status` raises KeyError when group_id is no
\* key of table; neither is an sqlite3.Error, so the exception leaves
\* get_scoreboard: the result is None here.
RECURSIVE FillTable(_, _)
FillTable(table, rows) ==
    IF rows = {} THEN Some(table)
    ELSE LET row == CHOOSE x \in rows : TRUE
             task == GetTaskById(row[2])
         IN  IF task = None THEN None
             ELSE IF row[1] \notin DOMAIN table THEN None
             ELSE FillTable([table EXCEPT ![row[1]][row[2]] =
                                RowStatus(task[1], row[3], row[4])],
                            rows \ {row})

Scoreboard(rows) == FillTable(NewTable(GetAllTasks), ScoreboardQuery(rows))

---------------------------------------------------------------------------
(* message *)

\* an insertion that replaces the rows of the table
InsertMessageReplacing(rows, id) == <<id>>

\* INSERT INTO message VALUES (?)
InsertMessage(rows, id) == Append(rows, id)

---------------------------------------------------------------------------
Init ==
    /\ point_code = {}
    /\ committed = {}
    /\ pc = [p \in Callers |-> "idle"]
    /\ local = [p \in Callers |-> NoLocal]
    /\ ret = Result("none", None, NoError)
    /\ issued = <<>>
    /\ redeemed = {}
    /\ deleted = {}
    /\ submissions = EmptyBag
    /\ message = <<>>

Return(p, result) ==
    /\ pc' = [pc EXCEPT ![p] = "idle"]
    /\ local' = [local EXCEPT ![p] = NoLocal]
    /\ ret' = result

\* gen_point_code without its `except sqlite3.IntegrityError` branch
GenOutcomeNoRetry(status) == "return"

\* gen_point_code with the loop's `continue` on every outcome of executemany
GenOutcomeAlwaysRetry(status) == "retry"

\* what gen_point_code does after executemany: commit and return the codes, or
\* (except sqlite3.IntegrityError) roll back and go round the loop again
GenOutcome(status) == IF status = "integrity" THEN "retry" ELSE "return"

\* one turn of gen_point_code's loop in which the store does not fail
GenTurn(p, point, amount) ==
    \E codes \in [1..amount -> Codes] :
        LET r == ExecuteMany(point_code, codes, point, 0)
        IN  IF GenOutcome(r.status) = "return"
            THEN /\ point_code' = r.rows
                 /\ committed' = r.rows
                 /\ issued' = Append(issued, [point |-> point, amount |-> amount,
                                              codes |-> codes])
                 /\ Return(p, Result("gen", Some(codes), NoError))
            ELSE /\ point_code' = committed
                 /\ pc' = [pc EXCEPT ![p] = "gen"]
                 /\ local' = [local EXCEPT
                                ![p] = [NoLocal EXCEPT !.point = point,
                                                        !.amount = amount]]
                 /\ UNCHANGED <<committed, ret, issued>>

\* gen_point_code(point, amount): the call and the first turn of the loop
GenPointCode(p) ==
    /\ pc[p] = "idle"
    /\ \E point \in Points, amount \in 1..MaxAmount : GenTurn(p, point, amount)
    /\ UNCHANGED <<redeemed, deleted, submissions, message>>

\* gen_point_code: a later turn of the loop, after a rollback
GenRetry(p) ==
    /\ pc[p] = "gen"
    /\ GenTurn(p, local[p].point, local[p].amount)
    /\ UNCHANGED <<redeemed, deleted, submissions, message>>

\* a turn of gen_point_code's loop in which executemany raises an sqlite3.Error
\* that is no IntegrityError: the error is returned, with neither commit nor
\* rollback
GenFault(p) ==
    /\ pc[p] \in {"idle", "gen"}
    /\ \E point \in Points, amount \in 1..MaxAmount :
        /\ pc[p] = "gen" => point = local[p].point /\ amount = local[p].amount
        /\ \E codes \in [1..amount -> Codes], failAt \in 1..amount :
            LET r == ExecuteMany(point_code, codes, point, failAt)
            IN  /\ r.status = "error"
                /\ point_code' = r.rows
    /\ Return(p, Result("gen", None, "error"))
    /\ UNCHANGED <<committed, issued, redeemed, deleted, submissions, message>>

\* use_point_code(code, group): the SELECT, its commit, and the two early returns
UseSelectOf(p, code, group) ==
    /\ pc[p] = "idle"
    /\ LET res == SelectByCode(point_code, code)
       IN  IF res = None
           THEN Return(p, Result("use", None, "not exists"))
           ELSE IF IsUsed(res[1].used_by)
           THEN Return(p, Result("use", None, "used"))
           ELSE /\ pc' = [pc EXCEPT ![p] = "use_update"]
                /\ local' = [local EXCEPT
                               ![p] = [NoLocal EXCEPT !.code = code,
                                                       !.group = group,
                                                       !.point = res[1].point]]
                /\ UNCHANGED ret
    /\ committed' = point_code
    /\ UNCHANGED <<point_code, issued, redeemed, deleted, submissions, message>>

UseSelect(p, groups) ==
    \E code \in Codes, group \in groups : UseSelectOf(p, code, group)

\* use_point_code: the UPDATE, its commit, and the return of the point
UseUpdate(p) ==
    /\ pc[p] = "use_update"
    /\ point_code' = UpdateUsedBy(point_code, local[p].code, local[p].group)
    /\ committed' = point_code'
    /\ redeemed' = redeemed \cup {<<local[p].code, local[p].group, local[p].point>>}
    /\ Return(p, Result("use", Some(local[p].point), NoError))
    /\ UNCHANGED <<issued, deleted, submissions, message>>

\* delete_point_code(code): the SELECT, its commit, and the early return
DeleteSelectOf(p, code) ==
    /\ pc[p] = "idle"
    /\ IF SelectUnused(point_code, code) = None
       THEN Return(p, Result("delete", None, "used"))
       ELSE /\ pc' = [pc EXCEPT ![p] = "delete_update"]
            /\ local' = [local EXCEPT ![p] = [NoLocal EXCEPT !.code = code]]
            /\ UNCHANGED ret
    /\ committed' = point_code
    /\ UNCHANGED <<point_code, issued, redeemed, deleted, submissions, message>>

DeleteSelect(p) == \E code \in Codes : DeleteSelectOf(p, code)

\* delete_point_code: the UPDATE, its commit, and the return
DeleteUpdate(p) ==
    /\ pc[p] = "delete_update"
    /\ point_code' = UpdateUsedBy(point_code, local[p].code, DeletedMark)
    /\ committed' = point_code'
    /\ deleted' = deleted \cup {local[p].code}
    /\ Return(p, Result("delete", None, NoError))
    /\ UNCHANGED <<issued, redeemed, submissions, message>>

\* get_group_point()
GetGroupPoint(p) ==
    /\ pc[p] = "idle"
    /\ committed' = point_code
    /\ Return(p, Result("rank", Some(GroupPoint(point_code)), NoError))
    /\ UNCHANGED <<point_code, issued, redeemed, deleted, submissions, message>>

\* the steps of the handlers that write
Step(p, groups) ==
    \/ GenPointCode(p)
    \/ GenRetry(p)
    \/ UseSelect(p, groups)
    \/ UseUpdate(p)
    \/ DeleteSelect(p)
    \/ DeleteUpdate(p)

Next == \E p \in Callers : Step(p, GroupIds)

Spec == Init /\ [][Next]_vars

\* no call of another caller is in progress
Alone(p) == \A q \in Callers \ {p} : pc[q] = "idle"

SeqNext ==
    \E p \in Callers :
        \/ Alone(p) /\ GenPointCode(p)
        \/ Alone(p) /\ GenRetry(p)
        \/ Alone(p) /\ GenFault(p)
        \/ Alone(p) /\ UseSelect(p, Groups)
        \/ Alone(p) /\ UseUpdate(p)
        \/ Alone(p) /\ DeleteSelect(p)
        \/ Alone(p) /\ DeleteUpdate(p)
        \/ Alone(p) /\ GetGroupPoint(p)

SeqSpec == Init /\ [][SeqNext]_vars

---------------------------------------------------------------------------
(* Listing the store after executemany has failed *)

\* get_point_code(): SELECT * FROM point_code, its commit, and the return
GetPointCode(p) ==
    /\ pc[p] = "idle"
    /\ committed' = point_code
    /\ Return(p, Result("list", Some(point_code), NoError))
    /\ UNCHANGED <<point_code, issued, redeemed, deleted, submissions, message>>

\* calls that do not overlap: codes are issued, with and without a fault of
\* the store, listed, and redeemed by groups
FaultNext ==
    \E p \in Callers :
        \/ Alone(p) /\ GenPointCode(p)
        \/ Alone(p) /\ GenRetry(p)
        \/ Alone(p) /\ GenFault(p)
        \/ Alone(p) /\ GetPointCode(p)
        \/ Alone(p) /\ UseSelect(p, GroupIds)
        \/ Alone(p) /\ UseUpdate(p)

FaultSpec == Init /\ [][FaultNext]_vars

---------------------------------------------------------------------------
(* The retry loop of gen_point_code *)

\* the turn of the loop in which executemany and the commit succeed
GenReturns(p) == GenRetry(p) /\ pc'[p] = "idle"

\* overlapping calls of gen_point_code
IssueNext ==
    \E p \in Callers :
        \/ GenPointCode(p)
        \/ GenRetry(p)
        \/ GenFault(p)

\* gen_code keeps producing codes: a caller in the loop that again and again
\* can draw a batch of new, distinct codes eventually draws one
IssueSpec ==
    /\ Init
    /\ [][IssueNext]_vars
    /\ \A p \in Callers : SF_vars(GenReturns(p))

---------------------------------------------------------------------------
(* The submissions log and the scoreboard *)

\* log_submission(group_id, task_id, password, is_correct)
LogSubmissionOf(group_id, task_id, password, is_correct) ==
    /\ BagCardinality(submissions) < MaxSubmissions
    /\ submissions' = InsertSubmission(submissions, group_id, task_id,
                                       password, is_correct)
    /\ committed' = point_code
    /\ ret' = Result("log", None, NoError)
    /\ UNCHANGED <<point_code, pc, local, issued, redeemed, deleted, message>>

LogSubmission ==
    \E group_id \in SubmitGroups, task_id \in TaskIds,
       password \in Passwords, is_correct \in BOOLEAN :
        LogSubmissionOf(group_id, task_id, password, is_correct)

\* get_submissions_statistics(group_id, task_id)
GetSubmissionsStatisticsOf(group_id, task_id) ==
    /\ committed' = point_code
    /\ ret' = Result("statistics",
                     Some(StatisticsQuery(submissions, group_id, task_id)), NoError)
    /\ UNCHANGED <<point_code, pc, local, issued, redeemed, deleted,
                   submissions, message>>

GetSubmissionsStatistics ==
    \E group_id \in SubmitGroups, task_id \in TaskIds :
        GetSubmissionsStatisticsOf(group_id, task_id)

\* get_scoreboard(): the query, its commit, and the loop; when the loop raises,
\* no value is returned and the error is "raised"
GetScoreboard ==
    /\ committed' = point_code
    /\ LET table == Scoreboard(submissions)
       IN  ret' = IF table = None
                  THEN Result("scoreboard", None, "raised")
                  ELSE Result("scoreboard", table, NoError)
    /\ UNCHANGED <<point_code, pc, local, issued, redeemed, deleted,
                   submissions, message>>

LogNext ==
    \/ LogSubmission
    \/ GetSubmissionsStatistics
    \/ GetScoreboard

LogSpec == Init /\ [][LogNext]_vars

---------------------------------------------------------------------------
(* The message of the group selection *)

\* store_group_selection_message_id(id)
StoreGroupSelectionMessageIdOf(id) ==
    /\ Len(message) < MaxMessages
    /\ message' = InsertMessage(message, id)
    /\ committed' = point_code
    /\ ret' = Result("store_message", None, NoError)
    /\ UNCHANGED <<point_code, pc, local, issued, redeemed, deleted, submissions>>

StoreGroupSelectionMessageId ==
    \E id \in MessageIds : StoreGroupSelectionMessageIdOf(id)

\* get_group_selection_message_id(): SELECT id FROM message LIMIT 1 has no
\* ORDER BY, so the row fetched is any row of the table
GetGroupSelectionMessageId ==
    /\ IF message = <<>>
       THEN ret' = Result("get_message", None, "not exists")
       ELSE \E i \in 1..Len(message) :
                ret' = Result("get_message", Some(message[i]), NoError)
    /\ committed' = point_code
    /\ UNCHANGED <<point_code, pc, local, issued, redeemed, deleted,
                   submissions, message>>

MessageNext ==
    \/ StoreGroupSelectionMessageId
    \/ GetGroupSelectionMessageId

MessageSpec == Init /\ [][MessageNext]_vars

---------------------------------------------------------------------------
(* Properties *)

\* the row of a code, and whether there is one
HasRow(rows, code) == \E r \in rows : r.code = code
RowOf(rows, code) == CHOOSE r \in rows : r.code = code

\* the groups to which use_point_code has returned the point of a code
Redeemers(code) == {t[2] : t \in {x \in redeemed : x[1] = code}}

\* C1: for one code, use_point_code returns the point to at most one group,
\* however the SELECT and UPDATE steps of overlapping calls interleave.
C1_AtMostOneRedeem ==
    \A c \in Codes : Cardinality(Redeemers(c)) <= 1

\* C2: every change of a row's used_by is from 0 to a group id (> 0) or from
\* 0 to -1; a used_by different from 0 is never changed again.
C2_UsedByChangesOnce ==
    [][\A r \in point_code : \A s \in point_code' :
          (r.code = s.code /\ r.used_by # s.used_by)
              => (r.used_by = 0 /\ (s.used_by > 0 \/ s.used_by = -1))]_vars

\* C3: once delete_point_code has returned success for a code, no
\* use_point_code has returned that code's point, and the ranking is the one
\* of the store without the deleted codes.
C3_DeletedStaysExcluded ==
    \A c \in deleted :
        /\ Redeemers(c) = {}
        /\ GroupPoint(point_code) = GroupPoint({r \in point_code : r.code # c})

\* the codes gen_point_code has returned, batch after batch
RECURSIVE Flatten(_)
Flatten(batches) ==
    IF batches = <<>> THEN <<>>
    ELSE Head(batches).codes \o Flatten(Tail(batches))

NoDuplicates(seq) == \A i, j \in 1..Len(seq) : i # j => seq[i] # seq[j]

\* C4: every successful gen_point_code(point, amount) returned exactly `amount`
\* codes, the codes returned over all calls are pairwise distinct, and no two
\* rows of point_code hold the same code.
C4_IssuedCodesUnique ==
    /\ \A b \in 1..Len(issued) : Len(issued[b].codes) = issued[b].amount
    /\ NoDuplicates(Flatten(issued))
    /\ \A r, s \in point_code : r.code = s.code => r = s

\* two calls have returned codes while a third turn of a loop hit a collision
\* and waits to try again
C4_Witness ==
    /\ Len(issued) = 2
    /\ \E b \in 1..Len(issued) : issued[b].amount = 1
    /\ \E p \in Callers : pc[p] = "gen" /\ local[p].amount = 2
    /\ ret.op = "gen" /\ ret.err = NoError

\* whether gen_point_code has returned the code, and the point it was given
IsIssued(code) ==
    \E b \in 1..Len(issued) : \E i \in 1..Len(issued[b].codes) : issued[b].codes[i] = code
IssuedPoint(code) ==
    LET b == CHOOSE k \in 1..Len(issued) :
                 \E i \in 1..Len(issued[k].codes) : issued[k].codes[i] = code
    IN  issued[b].point

\* use_point_code has returned the point of the code to a group with id >= 1
RedeemedByGroup(code) == \E t \in redeemed : t[1] = code /\ t[2] >= 1

\* C5: in calls that do not overlap, use_point_code(code, g) with g >= 1 on an
\* issued code that is not deleted and that no group with id >= 1 has redeemed
\* goes on to its UPDATE, which sets used_by = g and returns the point the code
\* was issued with; every later use_point_code of the code returns 'used'.
C5_RedeemOnce ==
    [][\A p \in Callers :
          /\ pc[p] = "idle" =>
                \A c \in Codes :
                    IF RedeemedByGroup(c)
                    THEN \A g \in Groups :
                            UseSelectOf(p, c, g)
                                => (ret' = Result("use", None, "used") /\ pc'[p] = "idle")
                    ELSE (IsIssued(c) /\ c \notin deleted) =>
                            \A g \in Groups :
                                (g >= 1 /\ UseSelectOf(p, c, g))
                                    => /\ pc'[p] = "use_update"
                                       /\ local'[p].code = c /\ local'[p].group = g
          /\ (/\ pc[p] = "use_update"
              /\ local[p].group >= 1 /\ IsIssued(local[p].code)
              /\ UseUpdate(p))
                => /\ ret' = Result("use", Some(IssuedPoint(local[p].code)), NoError)
                   /\ HasRow(point_code', local[p].code)
                   /\ RowOf(point_code', local[p].code).used_by = local[p].group
      ]_vars

\* a group has redeemed the only code of the store, and a later use_point_code
\* has returned 'used'
C5_Witness ==
    /\ \E c \in Codes : RedeemedByGroup(c) /\ point_code = {RowOf(point_code, c)}
    /\ \E r \in point_code : r.used_by >= 1 /\ r.point = 2
    /\ ret = Result("use", None, "used")

\* C6: use_point_code returns 'not exists' when no row has the code and 'used'
\* when the row's used_by is > 0 or -1; when it returns without reaching its
\* UPDATE the rows of point_code are the same as before.
C6_RedeemFailures ==
    [][\A p \in Callers :
          pc[p] = "idle" =>
              \A c \in Codes :
                  LET failure ==
                          IF ~HasRow(point_code, c) THEN "not exists"
                          ELSE IF \/ RowOf(point_code, c).used_by > 0
                                  \/ RowOf(point_code, c).used_by = -1
                               THEN "used"
                               ELSE "none"
                  IN  \A g \in Groups :
                          UseSelectOf(p, c, g) =>
                              /\ failure # "none"
                                    => /\ ret' = Result("use", None, failure)
                                       /\ pc'[p] = "idle"
                              /\ pc'[p] = "idle" => point_code' = point_code
      ]_vars

\* use_point_code has returned 'used' for a deleted code
C6_Witness ==
    /\ \E r \in point_code : r.used_by = -1 /\ point_code = {r}
    /\ redeemed = {}
    /\ ret = Result("use", None, "used")

\* C7: in calls that do not overlap, delete_point_code(code) goes on to its
\* UPDATE exactly when the code has a row with used_by = 0, and the UPDATE sets
\* used_by = -1 on that row alone and returns success; otherwise it returns
\* 'used' and leaves the rows as they are; once it has returned success, every
\* use_point_code and delete_point_code of the code returns 'used'.
C7_Delete ==
    [][\A p \in Callers :
          /\ pc[p] = "idle" =>
                \A c \in Codes :
                    /\ DeleteSelectOf(p, c) =>
                          IF HasRow(point_code, c) /\ RowOf(point_code, c).used_by = 0
                          THEN pc'[p] = "delete_update" /\ local'[p].code = c
                          ELSE /\ ret' = Result("delete", None, "used")
                               /\ pc'[p] = "idle"
                               /\ point_code' = point_code
                    /\ (c \in deleted /\ DeleteSelectOf(p, c))
                          => (ret' = Result("delete", None, "used") /\ pc'[p] = "idle")
                    /\ \A g \in Groups :
                          (c \in deleted /\ UseSelectOf(p, c, g))
                              => (ret' = Result("use", None, "used") /\ pc'[p] = "idle")
          /\ (pc[p] = "delete_update" /\ DeleteUpdate(p)) =>
                LET c == local[p].code
                IN  /\ ret' = Result("delete", None, NoError)
                    /\ HasRow(point_code, c) /\ RowOf(point_code, c).used_by = 0
                    /\ point_code' = (point_code \ {RowOf(point_code, c)})
                           \cup {[RowOf(point_code, c) EXCEPT !.used_by = -1]}
      ]_vars

\* one of two codes is deleted, the other is untouched, and a later
\* delete_point_code has returned 'used'
C7_Witness ==
    /\ deleted # {}
    /\ Cardinality(point_code) = 2
    /\ \E r, s \in point_code : r.used_by = -1 /\ s.used_by = 0
    /\ ret = Result("delete", None, "used")

\* the entries of a ranking from the first to the last are in the order
\* `point` descending, then `group` ascending
RankOrdered(res) ==
    \A i, j \in 1..Len(res) :
        i < j => \/ res[i][2] > res[j][2]
                 \/ (res[i][2] = res[j][2] /\ res[i][1] < res[j][1])

\* C8: the list get_group_point returns, padding included, is sorted by points
\* descending and, among equal points, by group id ascending.
C8_RankingSorted ==
    ret.op = "rank" => RankOrdered(ret.val[1])

\* the groups a ranking lists
Listed(res) == {res[i][1] : i \in 1..Len(res)}

\* some row has used_by = g
Holds(rows, g) == \E r \in rows : r.used_by = g

\* C9: in the list get_group_point returns no group appears twice; each of the
\* groups 1..9 appears; a group of 1..9 that holds no code has 0 points and
\* comes after every group that holds a code; a listed group outside 1..9
\* holds a code, and every group id above 9 that holds a code is listed.
C9_RankingGroups ==
    [][\A p \in Callers :
          GetGroupPoint(p) =>
              LET res == ret'.val[1]
              IN  /\ \A i, j \in 1..Len(res) : i # j => res[i][1] # res[j][1]
                  /\ \A g \in FirstGroup..LastGroup : g \in Listed(res)
                  /\ \A i \in 1..Len(res) :
                        (res[i][1] \in FirstGroup..LastGroup /\ ~Holds(point_code, res[i][1]))
                            => /\ res[i][2] = 0
                               /\ \A j \in 1..Len(res) :
                                     Holds(point_code, res[j][1]) => j < i
                  /\ \A g \in Listed(res) \ (FirstGroup..LastGroup) : Holds(point_code, g)
                  /\ \A r \in point_code : r.used_by > LastGroup => r.used_by \in Listed(res)
      ]_vars

\* a ranking that lists group 10, which holds a code, before group 2, which
\* holds one, and the padded groups
C9_Witness ==
    /\ ret.op = "rank"
    /\ Len(ret.val[1]) = 10
    /\ ret.val[1][1] = <<10, 2>>
    /\ ret.val[1][2] = <<2, 0>>
    /\ ret.val[1][3] = <<1, 0>>

\* the sum of the points of the rows with used_by = g, code by code
RECURSIVE PointsHeldBy(_, _, _)
PointsHeldBy(rows, g, codes) ==
    IF codes = {} THEN 0
    ELSE LET c == CHOOSE x \in codes : TRUE
             here == {r \in rows : r.code = c /\ r.used_by = g}
         IN  (IF here = {} THEN 0 ELSE (CHOOSE r \in here : TRUE).point)
                 + PointsHeldBy(rows, g, codes \ {c})

\* C10: each entry (g, total) of the list get_group_point returns has total =
\* the sum of point over the rows with used_by = g, and g is neither 0
\* (unredeemed) nor -1 (deleted).
C10_RankingTotals ==
    [][\A p \in Callers :
          GetGroupPoint(p) =>
              LET res == ret'.val[1]
              IN  \A i \in 1..Len(res) :
                      /\ res[i][2] = PointsHeldBy(point_code, res[i][1], Codes)
                      /\ res[i][1] \notin {0, -1}
      ]_vars

\* a ranking in which group 1 holds both codes, taken while nothing is deleted
C10_Witness ==
    /\ ret.op = "rank"
    /\ ret.val[1][1] = <<1, 4>>
    /\ \A r \in point_code : r.used_by = 1

\* the ids of the tasks of the catalog
Catalog == {task.task_id : task \in Tasks}

\* the number of rows of table submissions with the group, the task and the
\* value of is_correct
RowsWith(rows, g, t, v) ==
    BagCardinality([r \in {x \in BagToSet(rows) :
                              x.group_id = g /\ x.task_id = t /\ x.is_correct = v}
                       |-> rows[r]])

\* every row of table submissions is of a group of 1..9 and a task of the catalog
LogInRange ==
    \A r \in BagToSet(submissions) :
        r.group_id \in FirstGroup..LastGroup /\ r.task_id \in Catalog

\* C11: get_scoreboard returns a table when every logged submission is of a
\* group of 1..9 and a task of the catalog, and in every table it returns the
\* entry of group g in 1..9 and catalog task t is -1 if t has a max_attempt and
\* the number of rows of (g, t) with is_correct = 0 is at least max_attempt
\* (however many rows have is_correct = 1), otherwise 1 if some row of (g, t)
\* has is_correct = 1, otherwise 0.
C11_ScoreboardStatus ==
    [][GetScoreboard =>
          /\ LogInRange => ret'.err = NoError
          /\ ret'.err = NoError =>
                \A g \in FirstGroup..LastGroup : \A task \in Tasks :
                    ret'.val[1][g][task.task_id] =
                        IF /\ task.max_attempt # None
                           /\ RowsWith(submissions, g, task.task_id, 0) >= task.max_attempt[1]
                        THEN -1
                        ELSE IF RowsWith(submissions, g, task.task_id, 1) > 0 THEN 1
                        ELSE 0
      ]_vars

\* a table that reports -1 for a group that has a correct submission and as
\* many incorrect ones as the task allows
C11_Witness ==
    /\ ret.op = "scoreboard" /\ ret.err = NoError
    /\ ret.val[1][1]["t1"] = -1
    /\ RowsWith(submissions, 1, "t1", 1) = 1
    /\ RowsWith(submissions, 1, "t1", 0) = MaxAttempt

\* C12: whatever has been logged, get_scoreboard returns a table whose keys
\* are the groups 1..9 and, for each group, the task ids of the catalog.
C12_ScoreboardTotal ==
    [][GetScoreboard =>
          /\ ret'.err = NoError
          /\ DOMAIN ret'.val[1] = FirstGroup..LastGroup
          /\ \A g \in FirstGroup..LastGroup : DOMAIN ret'.val[1][g] = Catalog
      ]_vars


\* C13: a turn of gen_point_code's loop that ends with the rollback leaves the
\* rows of point_code as they were before the turn; the turn that returns the
\* codes adds one row per returned code, with the requested point and
\* used_by = 0, and nothing else.
C13_CollisionLeavesStore ==
    [][\A p \in Callers :
          (GenPointCode(p) \/ GenRetry(p)) =>
              IF pc'[p] = "gen"
              THEN point_code' = point_code
              ELSE point_code' =
                      point_code \cup
                          {[code |-> ret'.val[1][i],
                            point |-> issued'[Len(issued')].point,
                            used_by |-> 0] : i \in 1..Len(ret'.val[1])}
      ]_vars

\* C14: no row of a batch whose gen_point_code returned an error is committed
\* or seen: every committed row has a code that gen_point_code has returned,
\* get_point_code lists only such rows, and use_point_code of a code that
\* gen_point_code has not returned answers 'not exists'.
C14_FailedBatchNotObservable ==
    [][\A p \in Callers :
          /\ \A r \in committed : IsIssued(r.code)
          /\ GetPointCode(p) => \A r \in ret'.val[1] : IsIssued(r.code)
          /\ pc[p] = "idle" =>
                \A c \in Codes :
                    ~IsIssued(c) =>
                        \A g \in GroupIds :
                            UseSelectOf(p, c, g)
                                => ret' = Result("use", None, "not exists")
      ]_vars

\* gen_code can produce `amount` distinct codes that have no row
FreshBatchExists(amount) ==
    Cardinality(Codes \ {r.code : r \in point_code}) >= amount

\* C15: gen_point_code never returns the IntegrityError: what it returns is the
\* codes or the error of another fault; and a call that is in the retry loop
\* returns, unless from some time on gen_code has no batch of new codes left
\* to produce.
C15_IssueReturns ==
    /\ [](ret.op = "gen" =>
             \/ ret.err = NoError /\ ret.val # None
             \/ ret.err = "error" /\ ret.val = None)
    /\ \A p \in Callers :
          (pc[p] = "gen") ~>
              (pc[p] = "idle" \/ [](~FreshBatchExists(local[p].amount)))

\* a call waits in the retry loop after a collision, new codes are left, and
\* another call has returned its codes
C15_Witness ==
    /\ \E p \in Callers : pc[p] = "gen" /\ FreshBatchExists(local[p].amount)
    /\ ret.op = "gen" /\ ret.err = NoError
    /\ Len(issued) = 1


\* C16: get_submissions_statistics(g, t) returns (number of rows of (g, t)
\* with is_correct = 1, number with is_correct = 0), which is (0, 0) when the
\* pair has no row, and changes no row; log_submission(g, t, pw, ok) raises
\* the count of (g, t) for ok by one and leaves every other count as it was;
\* no step lowers a count.
C16_Statistics ==
    [][/\ \A g \in SubmitGroups, t \in TaskIds :
             GetSubmissionsStatisticsOf(g, t) =>
                 /\ ret' = Result("statistics",
                                  Some(<<RowsWith(submissions, g, t, 1),
                                         RowsWith(submissions, g, t, 0)>>), NoError)
                 /\ submissions' = submissions
       /\ \A g \in SubmitGroups, t \in TaskIds, pw \in Passwords, ok \in BOOLEAN :
             LogSubmissionOf(g, t, pw, ok) =>
                 \A g2 \in SubmitGroups, t2 \in TaskIds, v \in {0, 1} :
                     RowsWith(submissions', g2, t2, v) =
                         RowsWith(submissions, g2, t2, v)
                             + (IF g2 = g /\ t2 = t /\ v = (IF ok THEN 1 ELSE 0)
                                THEN 1 ELSE 0)
       /\ \A g \in SubmitGroups, t \in TaskIds, v \in {0, 1} :
             RowsWith(submissions', g, t, v) >= RowsWith(submissions, g, t, v)
      ]_vars

\* the statistics of a pair with one correct and two incorrect rows, outside
\* the groups 1..9 and the catalog
C16_Witness ==
    /\ ret = Result("statistics", Some(<<1, 2>>), NoError)
    /\ RowsWith(submissions, 10, "zz", 1) = 1
    /\ RowsWith(submissions, 10, "zz", 0) = 2

\* C17 as stated: table message never holds more than one row, however often
\* store_group_selection_message_id is called.
C17_AtMostOneRow == Len(message) <= 1

\* C17, amended: every call of store_group_selection_message_id adds one row
\* to table message and keeps the rows that are there, and
\* get_group_selection_message_id changes no row: the table holds as many
\* rows as there were calls, at most one only while there was at most one call.
C17_StoreAddsRow ==
    [][/\ \A id \in MessageIds :
             StoreGroupSelectionMessageIdOf(id) =>
                 /\ Len(message') = Len(message) + 1
                 /\ SubSeq(message', 1, Len(message)) = message
                 /\ message'[Len(message')] = id
       /\ GetGroupSelectionMessageId => message' = message
      ]_vars

\* a second call has stored a second id and returned success
C17_Witness ==
    /\ Len(message) = 2
    /\ message[1] # message[2]
    /\ ret = Result("store_message", None, NoError)

\* the status get_scoreboard computes for a group and a task of the catalog
StatusOf(rows, g, task) ==
    LET q == {row \in ScoreboardQuery(rows) : row[1] = g /\ row[2] = task.task_id}
    IN  IF q = {} THEN 0
        ELSE LET row == CHOOSE x \in q : TRUE
             IN  RowStatus(task, row[3], row[4])

\* C18: as submissions are logged, the status of a group and a catalog task
\* that is -1 stays -1, and a status that is 1 does not become 0.
C18_StatusForward ==
    [][\A g \in SubmitGroups : \A task \in Tasks :
          /\ StatusOf(submissions, g, task) = -1 => StatusOf(submissions', g, task) = -1
          /\ StatusOf(submissions, g, task) = 1 => StatusOf(submissions', g, task) # 0
      ]_vars

\* a task without max_attempt is still solved after a correct and two incorrect
\* submissions
C18_Witness ==
    /\ \E task \in Tasks : task.task_id = "t2" /\ StatusOf(submissions, 1, task) = 1
    /\ RowsWith(submissions, 1, "t2", 1) = 1
    /\ RowsWith(submissions, 1, "t2", 0) = 2


\* the sum of the points use_point_code has returned in the calls `calls`
RECURSIVE SumReturned(_)
SumReturned(calls) ==
    IF calls = {} THEN 0
    ELSE LET t == CHOOSE x \in calls : TRUE
         IN  t[3] + SumReturned(calls \ {t})

\* C19: with points >= 0, the total the ranking gives a group is at every
\* time the sum of the points use_point_code has returned to that group: it
\* never decreases, and every returned point stays counted.
C19_TotalsMatchRedeems ==
    \A g \in GroupIds :
        GroupTotal(point_code, g) = SumReturned({t \in redeemed : t[2] = g})

\* C20: whatever integer group use_point_code is called with, the UPDATE
\* leaves the code with a used_by that counts as used (> 0 or -1), and every
\* later use_point_code of a code whose point has been returned answers 'used'.
C20_RedeemConsumes ==
    [][\A p \in Callers :
          /\ (pc[p] = "use_update" /\ UseUpdate(p)) =>
                LET u == RowOf(point_code', local[p].code).used_by
                IN  u > 0 \/ u = -1
          /\ pc[p] = "idle" =>
                \A c \in Codes :
                    Redeemers(c) # {} =>
                        \A g \in Groups :
                            UseSelectOf(p, c, g)
                                => (ret' = Result("use", None, "used") /\ pc'[p] = "idle")
      ]_vars


===========================================================================
